---- MODULE Spec2Model ----
(***************************************************************************)
(* deCONZ gateway client (homeassistant/components/dcz/__init__.py):       *)
(* the device registry (_devices), the pending-discovery table (_futures), *)
(* the websocket listener, the per-frame routing tasks, the refresh loop   *)
(* and the host's platform setups that call back into register_device.     *)
(*                                                                         *)
(* One action is one run of a coroutine between two suspension points of   *)
(* the asyncio loop (or one synchronous host call-in).                     *)
(***************************************************************************)
EXTENDS Integers, Sequences, FiniteSets, TLC

\* ------------------------------------------------------------- bounds
\* Frames the listener receives over the whole run while it can dispatch.
MaxFrames == 2
\* Calls of unregister_device over the whole run.
MaxUnregister == 1

\* ------------------------------------------------------ program constants
\* asyncio.sleep(5) in the listener's exception handler.
RECONNECT_DELAY == 5

\* ------------------------------------------------------------ the bridge
\* for dclass in ['sensors', 'lights']
Kinds == {"sensors", "lights"}
Ids == {1, 2}

\* A registry key that is missing from the dict / a key mapped to None.
\* Handles are the positive indices into the sequence handles.
Absent == -1
None == 0
NoComp == "None"
NoUid == "None"

\* The raw device records the bridge serves (GET {kind} and GET {kind}/{id}).
\* sensors/1 is a door magnet, sensors/2 is a sensor the classifier does not
\* know, lights/1 is a dimmable light. Every record has its own uniqueid.
Bridge ==
  [sensors |-> (1 :> [uniqueid |-> "uS1", modelid |-> "lumi.sensor_magnet",
                      state |-> [open |-> 0]]
             @@ 2 :> [uniqueid |-> "uS2", modelid |-> "lumi.sensor_ht",
                      state |-> [temperature |-> 20]]),
   lights  |-> (1 :> [uniqueid |-> "uL1", type |-> "Dimmable light",
                      state |-> [on |-> 0, bri |-> 50]])]

Uids == {"uS1", "uS2", "uL1"}

\* config[DOMAIN]: device_config defaults to {} (CONFIG_SCHEMA).
Config == [dcz |-> [device_config |-> <<>>]]

\* str.startswith("TRADFRI bulb") over the model ids of the bridge.
TradfriBulbs == {"TRADFRI bulb E27 opal 1000lm", "TRADFRI bulb E14 W op/ch 400lm"}

\* components.component: config has precedence, then the kind's table.
component(config, dclass, device) ==
  LET dc == config.dcz.device_config
      node_config == IF "uniqueid" \in DOMAIN device /\ device.uniqueid \in DOMAIN dc
                     THEN dc[device.uniqueid] ELSE <<>>
  IN IF "uniqueid" \in DOMAIN device /\ "type" \in DOMAIN node_config
     THEN node_config.type
     ELSE IF dclass = "sensors"
     THEN IF "modelid" \in DOMAIN device /\ device.modelid = "lumi.sensor_magnet"
          THEN "binary_sensor" ELSE NoComp
     ELSE IF dclass = "lights"
     THEN IF "type" \in DOMAIN device
             /\ device.type \in {"Extended color light", "Color light",
                                 "Dimmable light", "Color temperature light"}
          THEN "light"
          ELSE IF "modelid" \in DOMAIN device /\ device.modelid \in TradfriBulbs
          THEN "light" ELSE NoComp
     ELSE NoComp

\* The outcomes of the network call inside _req.
ReqOutcomes == {"ok", "status", "timeout", "client_error"}

\* DeCONZApi._req: the decoded body on success; non-200, timeout and
\* ClientError all collapse to False.
req(outcome, body) ==
  IF outcome = "ok" THEN [ok |-> TRUE, raw |-> body]
  ELSE [ok |-> FALSE, raw |-> <<>>]

\* ------------------------------------------------------------ the frames
\* Decoded websocket messages the bridge sends.
Messages ==
  { [r |-> "sensors", id |-> 1, e |-> "changed", state |-> [open |-> 1]],
    [r |-> "lights", id |-> 1, e |-> "changed", state |-> [on |-> 1]],
    [r |-> "sensors", id |-> 2, e |-> "changed", state |-> [temperature |-> 21]],
    [id |-> 1, e |-> "changed", state |-> [open |-> 1]],
    [r |-> "sensors", e |-> "changed", state |-> [open |-> 1]] }

\* Raw frames: an empty frame, text that is no JSON, JSON that decodes to an
\* empty value, and the JSON text of each message.
RawFrames ==
  {[text |-> "empty"], [text |-> "garbage"], [text |-> "emptyjson"]}
    \cup {[text |-> "json", body |-> m] : m \in Messages}

\* Events for the dimmable light lights/1 in every shape handle_message
\* tells apart: a state change, a second one that overwrites the first and
\* adds to it, a battery report, a battery report that is also a state
\* change, a state change with a config sub-object that has no battery
\* field, and a state change without a state sub-map.
EntityMessages ==
  { [r |-> "lights", id |-> 1, e |-> "changed", state |-> [on |-> 1]],
    [r |-> "lights", id |-> 1, e |-> "changed", state |-> [on |-> 0, bri |-> 120]],
    [r |-> "lights", id |-> 1, config |-> [battery |-> 80]],
    [r |-> "lights", id |-> 1, config |-> [battery |-> 70], e |-> "changed",
     state |-> [on |-> 1]],
    [r |-> "lights", id |-> 1, config |-> [reachable |-> 1], e |-> "changed",
     state |-> [on |-> 1]],
    [r |-> "lights", id |-> 1, e |-> "changed"] }

EntityFrames == {[text |-> "json", body |-> m] : m \in EntityMessages}

\* json.loads(raw): raises on text that is no JSON.
json_loads(raw) ==
  IF raw.text = "garbage" THEN [raised |-> TRUE, data |-> <<>>]
  ELSE IF raw.text = "emptyjson" THEN [raised |-> FALSE, data |-> <<>>]
  ELSE [raised |-> FALSE, data |-> raw.body]

\* ------------------------------------------------------------- the state
VARIABLES
  devices,     \* _devices: kind -> id -> Absent | None | handle
  futures,     \* _futures: uid -> "absent" | "pending" | "cancelled"
  handles,     \* the Entity objects created so far (dclass, id, uid, _state)
  setups,      \* platform setups handed to the host and not yet run
  tasks,       \* one routing task (_ws_handle_message) per dispatched frame
  ws_pc,       \* the listener's suspension point
  ws_after,    \* what follows the finally block: "loop" | "exit"
  ws_cause,    \* why the listener left the connection
  socket,      \* the local variable socket: "unbound" | "open" | "closed"
  elapsed,     \* time since the listener left the connection
  dying,       \* _dying
  ws_cancel,   \* _ws_task.cancel() requested and not yet delivered
  rf_pc,       \* the refresh loop: the kind whose GET it awaits, or "crashed"
  unregs,      \* calls of unregister_device so far
  initRaised,  \* the last Entity.__init__ call raised out of register_device
  started,     \* kind -> id -> setups handed to the host for the device of
               \* that key while the key is in _devices, since it last
               \* entered (history of the calls of async_load_platform)
  rq_pc,       \* a command's _req call: "idle" or its suspension point
  rq_call,     \* the verb and node of that call
  response,    \* its local variable response: "none" | "open" | "released"
  rq_result    \* how the last call ended: "none" | "raw" | "False" | "raised"

vars == <<devices, futures, handles, setups, tasks, ws_pc, ws_after,
          ws_cause, socket, elapsed, dying, ws_cancel, rf_pc, unregs, initRaised,
          started, rq_pc, rq_call, response, rq_result>>

registryVars == <<devices, futures, handles, setups, initRaised, started>>
requestVars == <<rq_pc, rq_call, response, rq_result>>
listenerVars == <<ws_pc, ws_after, ws_cause, socket, elapsed, ws_cancel>>

\* DeCONZApi.__init__ and async_setup: empty tables, the listener and the
\* refresh loop scheduled and not yet run.
Init ==
  /\ devices = [k \in Kinds |-> [i \in Ids |-> Absent]]
  /\ futures = [u \in Uids |-> "absent"]
  /\ handles = <<>>
  /\ setups = <<>>
  /\ tasks = <<>>
  /\ ws_pc = "config"
  /\ ws_after = "loop"
  /\ ws_cause = "none"
  /\ socket = "unbound"
  /\ elapsed = 0
  /\ dying = FALSE
  /\ ws_cancel = FALSE
  /\ rf_pc = "sensors"
  /\ unregs = 0
  /\ initRaised = FALSE
  /\ started = [k \in Kinds |-> [i \in Ids |-> 0]]
  /\ rq_pc = "idle"
  /\ rq_call = [verb |-> "none", node |-> "none"]
  /\ response = "none"
  /\ rq_result = "none"

\* ------------------------------------------------- handles and registry
\* dict.update: every key of m takes m's value, every other key keeps s's.
DictUpdate(s, m) ==
  [k \in DOMAIN s \cup DOMAIN m |-> IF k \in DOMAIN m THEN m[k] ELSE s[k]]

\* Entity.__init__ up to the call of register_device: uid is
\* device.get('uniqueid'), _state is device['state'] or {}.
NewEntity(dclass, device_id, device) ==
  [dclass |-> dclass,
   id |-> device_id,
   uid |-> IF "uniqueid" \in DOMAIN device THEN device.uniqueid ELSE NoUid,
   state |-> IF "state" \in DOMAIN device THEN device.state ELSE <<>>]

\* handle_message with the two tests side by side (if ... if) instead of
\* if ... elif: a battery report that is also a state change is merged too.
handle_message_both(state, message) ==
  LET s1 == IF "config" \in DOMAIN message /\ "battery" \in DOMAIN message.config
            THEN DictUpdate(state, [battery_level |-> message.config.battery])
            ELSE state
  IN IF "e" \in DOMAIN message /\ message.e = "changed"
     THEN IF "state" \in DOMAIN message
          THEN [raised |-> FALSE, state |-> DictUpdate(s1, message.state)]
          ELSE [raised |-> TRUE, state |-> s1]
     ELSE [raised |-> FALSE, state |-> s1]

\* Entity.handle_message: the new _state, and whether the call raised
\* (KeyError on a 'changed' event without a state sub-map).
handle_message(state, message) ==
  IF "config" \in DOMAIN message
  THEN IF "battery" \in DOMAIN message.config
       THEN [raised |-> FALSE,
             state |-> DictUpdate(state, [battery_level |-> message.config.battery])]
       ELSE [raised |-> FALSE, state |-> state]
  ELSE IF "e" \in DOMAIN message /\ message.e = "changed"
  THEN IF "state" \in DOMAIN message
       THEN [raised |-> FALSE, state |-> DictUpdate(state, message.state)]
       ELSE [raised |-> TRUE, state |-> state]
  ELSE [raised |-> FALSE, state |-> state]

IsLive(entry) == entry > None

\* register_device with the duplicate check left out: it stores obj over
\* whatever the entry holds.
register_device_overwrite(devs, futs, dclass, h, obj) ==
  LET stored == [devs EXCEPT ![dclass][obj.id] = h]
      inTable == obj.uid \in DOMAIN futs /\ futs[obj.uid] # "absent"
  IN IF inTable /\ futs[obj.uid] = "cancelled"
     THEN [devices |-> stored, futures |-> futs, resolved |-> FALSE, raised |-> TRUE]
     ELSE IF inTable
     THEN [devices |-> stored, futures |-> [futs EXCEPT ![obj.uid] = "absent"],
           resolved |-> TRUE, raised |-> FALSE]
     ELSE [devices |-> stored, futures |-> futs, resolved |-> FALSE, raised |-> FALSE]

\* DeCONZApi.register_device(dclass, obj), obj being handle h: a live
\* entry makes it warn and return; otherwise it stores obj and, when
\* obj.uid is in _futures, calls set_result(obj) and deletes the slot.
\* set_result on a future that wait_for has cancelled raises
\* InvalidStateError before the del.
register_device(devs, futs, dclass, h, obj) ==
  IF IsLive(devs[dclass][obj.id])
  THEN [devices |-> devs, futures |-> futs, resolved |-> FALSE, raised |-> FALSE]
  ELSE LET stored == [devs EXCEPT ![dclass][obj.id] = h]
           inTable == obj.uid \in DOMAIN futs /\ futs[obj.uid] # "absent"
       IN IF inTable /\ futs[obj.uid] = "cancelled"
          THEN [devices |-> stored, futures |-> futs,
                resolved |-> FALSE, raised |-> TRUE]
          ELSE IF inTable
          THEN [devices |-> stored, futures |-> [futs EXCEPT ![obj.uid] = "absent"],
                resolved |-> TRUE, raised |-> FALSE]
          ELSE [devices |-> stored, futures |-> futs,
                resolved |-> FALSE, raised |-> FALSE]

\* DeCONZApi.unregister_device: del self._devices[dclass][obj.id].
unregister_device(devs, dclass, obj) ==
  [devs EXCEPT ![dclass][obj.id] = Absent]

RemoveAt(seq, i) ==
  [j \in 1..(Len(seq) - 1) |-> IF j < i THEN seq[j] ELSE seq[j + 1]]

\* The host runs one platform setup: async_setup_platform builds the
\* entity (Light or BinarySensor), whose Entity.__init__ registers it.
\* A routing task waiting on the slot this resolves is woken with the handle.
SetupComplete(i) ==
  /\ i \in DOMAIN setups
  /\ LET s == setups[i]
         obj == NewEntity(s.dclass, s.id, s.device)
         h == Len(handles) + 1
         r == register_device(devices, futures, s.dclass, h, obj)
     IN /\ handles' = Append(handles, obj)
        /\ devices' = r.devices
        /\ futures' = r.futures
        /\ initRaised' = r.raised
        /\ tasks' = [t \in DOMAIN tasks |->
                       IF r.resolved /\ tasks[t].pc = "wait" /\ tasks[t].uid = obj.uid
                       THEN [tasks[t] EXCEPT !.pc = "wake", !.res = h]
                       ELSE tasks[t]]
  /\ setups' = RemoveAt(setups, i)
  /\ UNCHANGED <<listenerVars, dying, rf_pc, unregs, started, requestVars>>

\* The host removes an entity: unregister_device(obj.dclass, obj) for a
\* handle the registry holds.
Unregister(k, i) ==
  /\ unregs < MaxUnregister
  /\ IsLive(devices[k][i])
  /\ handles[devices[k][i]].dclass = k
  /\ devices' = unregister_device(devices, k, handles[devices[k][i]])
  /\ unregs' = unregs + 1
  /\ started' = [started EXCEPT ![k][i] = 0]
  /\ UNCHANGED <<futures, handles, setups, tasks, listenerVars, dying,
                 rf_pc, initRaised, requestVars>>

\* ------------------------------------------------------- event routing
NewTask(message) ==
  [pc |-> "new", msg |-> message, uid |-> NoUid, res |-> None, outcome |-> "none"]

\* A routing task that has ended keeps only how it ended.
Ended(outcome) ==
  [pc |-> "done", msg |-> <<>>, uid |-> NoUid, res |-> None, outcome |-> outcome]

\* A routing task at suspension point pc.
Suspended(task, pc, uid) ==
  [task EXCEPT !.pc = pc, !.uid = uid]

\* What is raised while an event is routed: TypeError by component on the
\* False of a failed GET, KeyError by device['uniqueid'] and by
\* message['state'], CancelledError by the wait on a slot that an earlier
\* wait_for has cancelled (a subclass of Exception on the interpreters this
\* code runs on).
Exceptions == {"TypeError", "KeyError", "CancelledError"}

\* The handler catching KeyError alone.
except_KeyError(exc) ==
  IF exc = "KeyError" THEN "error" ELSE "raised"

\* except Exception as e: _LOGGER.error(...): the routing task ends
\* normally ("error"); what the clause does not catch leaves the coroutine
\* ("raised").
except_Exception(exc) ==
  IF exc \in Exceptions THEN "error" ELSE "raised"

\* _ws_handle_message: 'r' not in message / 'id' not in message.
Malformed(message) ==
  "r" \notin DOMAIN message \/ "id" \notin DOMAIN message

\* The registry test read as "holds a handle": a pending entry would then
\* start discovery again.
InRegistryLiveOnly(devs, dclass, device_id) ==
  IsLive(devs[dclass][device_id])

\* dclass in self._devices and device_id in self._devices[dclass]
InRegistry(devs, dclass, device_id) ==
  devs[dclass][device_id] # Absent

\* _ws_handle_message from the registry lookup on, up to the first
\* suspension: a known key gives its entry, and a handle gets the message;
\* an unknown key enters _find_unknown_device, which stores None under it
\* and suspends in the GET.
Route(devs, hs, dclass, device_id, message) ==
  IF InRegistry(devs, dclass, device_id)
  THEN LET device == devs[dclass][device_id]
       IN IF ~IsLive(device)
          THEN [devices |-> devs, handles |-> hs, pc |-> "done", outcome |-> "unknown"]
          ELSE LET r == handle_message(hs[device].state, message)
               IN [devices |-> devs,
                   handles |-> [hs EXCEPT ![device].state = r.state],
                   pc |-> "done",
                   outcome |-> IF r.raised THEN except_Exception("KeyError")
                               ELSE "delivered"]
  ELSE [devices |-> [devs EXCEPT ![dclass][device_id] = None],
        handles |-> hs, pc |-> "fetch", outcome |-> "none"]

\* The start of the handler with the kind defaulted instead of required:
\* dclass = message.get('r', 'sensors').
RouteStartDefaultKind(devs, hs, message) ==
  IF "id" \notin DOMAIN message
  THEN [devices |-> devs, handles |-> hs, pc |-> "done", outcome |-> "no_id"]
  ELSE Route(devs, hs, IF "r" \in DOMAIN message THEN message.r ELSE "sensors",
             message.id, message)

\* _ws_handle_message from its start to its first suspension or its end.
RouteStart(devs, hs, message) ==
  IF Malformed(message)
  THEN [devices |-> devs, handles |-> hs, pc |-> "done",
        outcome |-> IF "r" \notin DOMAIN message THEN "no_dclass" ELSE "no_id"]
  ELSE Route(devs, hs, message.r, message.id, message)

\* discovery.async_load_platform(hass, comp, DOMAIN,
\*     ('sensors', device_id, device), config): the kind handed to the
\* platform is the literal 'sensors'.
DiscoveryInfo(comp, dclass, device_id, device) ==
  [comp |-> comp, dclass |-> "sensors", id |-> device_id, device |-> device]

\* _find_unknown_device after the GET with the slot created before the
\* classifier is asked.
FindUnknownFetchedSlotFirst(futs, sups, dclass, device_id, got) ==
  IF ~got.ok
  THEN [futures |-> futs, setups |-> sups, pc |-> "done",
        outcome |-> "error", uid |-> NoUid]
  ELSE LET device == got.raw
           comp == component(Config, dclass, device)
           uid == device.uniqueid
           futs1 == IF futs[uid] = "absent" THEN [futs EXCEPT ![uid] = "pending"] ELSE futs
       IN IF comp = NoComp
          THEN [futures |-> futs1, setups |-> sups, pc |-> "done",
                outcome |-> "unclassifiable", uid |-> NoUid]
          ELSE [futures |-> futs1,
                setups |-> IF futs[uid] = "absent"
                           THEN Append(sups, DiscoveryInfo(comp, dclass, device_id, device))
                           ELSE sups,
                pc |-> IF futs1[uid] = "cancelled" THEN "done" ELSE "wait",
                outcome |-> IF futs1[uid] = "cancelled" THEN "error" ELSE "none",
                uid |-> uid]

\* _find_unknown_device from the return of the GET to the wait on the slot,
\* and what _ws_handle_message makes of it. got is what self.get returned:
\*  - False makes component raise TypeError ('uniqueid' in False), which the
\*    handler's except clause logs;
\*  - no component gives result False: "Unable to determine device";
\*  - otherwise the slot for the uniqueid is created unless it exists, the
\*    setup is handed to the host with it, and the task waits on the slot
\*    (a slot that is already cancelled raises CancelledError at once).
FindUnknownFetched(futs, sups, dclass, device_id, got) ==
  IF ~got.ok
  THEN [futures |-> futs, setups |-> sups, pc |-> "done",
        outcome |-> except_Exception("TypeError"), uid |-> NoUid]
  ELSE LET device == got.raw
           comp == component(Config, dclass, device)
       IN IF comp = NoComp
          THEN [futures |-> futs, setups |-> sups, pc |-> "done",
                outcome |-> "unclassifiable", uid |-> NoUid]
          ELSE IF "uniqueid" \notin DOMAIN device
          THEN [futures |-> futs, setups |-> sups, pc |-> "done",
                outcome |-> except_Exception("KeyError"), uid |-> NoUid]
          ELSE LET uid == device.uniqueid
                   create == futs[uid] = "absent"
                   futs1 == IF create THEN [futs EXCEPT ![uid] = "pending"] ELSE futs
                   sups1 == IF create
                            THEN Append(sups, DiscoveryInfo(comp, dclass, device_id, device))
                            ELSE sups
               IN IF futs1[uid] = "cancelled"
                  THEN [futures |-> futs1, setups |-> sups1, pc |-> "done",
                        outcome |-> except_Exception("CancelledError"), uid |-> uid]
                  ELSE [futures |-> futs1, setups |-> sups1, pc |-> "wait",
                        outcome |-> "none", uid |-> uid]

\* The routing tasks started in any order.
TaskStartAnyOrder(t) ==
  /\ t \in DOMAIN tasks
  /\ tasks[t].pc = "new"
  /\ LET r == RouteStart(devices, handles, tasks[t].msg)
     IN /\ devices' = r.devices
        /\ handles' = r.handles
        /\ tasks' = [tasks EXCEPT ![t] = IF r.pc = "done" THEN Ended(r.outcome)
                                         ELSE Suspended(@, r.pc, NoUid)]
  /\ UNCHANGED <<futures, setups, listenerVars, dying, rf_pc, unregs,
                 initRaised, started, requestVars>>

\* The loop runs the routing tasks in the order ensure_future created them.
TaskStart(t) ==
  /\ t \in DOMAIN tasks
  /\ tasks[t].pc = "new"
  /\ \A u \in 1..(t - 1) : tasks[u].pc # "new"
  /\ LET r == RouteStart(devices, handles, tasks[t].msg)
     IN /\ devices' = r.devices
        /\ handles' = r.handles
        /\ tasks' = [tasks EXCEPT ![t] = IF r.pc = "done" THEN Ended(r.outcome)
                                         ELSE Suspended(@, r.pc, NoUid)]
  /\ UNCHANGED <<futures, setups, listenerVars, dying, rf_pc, unregs,
                 initRaised, started, requestVars>>

\* The GET {kind}/{id} of _find_unknown_device returns.
TaskFetch(t, outcome) ==
  /\ t \in DOMAIN tasks
  /\ tasks[t].pc = "fetch"
  /\ outcome \in ReqOutcomes
  /\ LET dclass == tasks[t].msg.r
         device_id == tasks[t].msg.id
         exists == device_id \in DOMAIN Bridge[dclass]
         got == req(outcome, IF exists THEN Bridge[dclass][device_id] ELSE <<>>)
         r == FindUnknownFetched(futures, setups, dclass, device_id, got)
     IN /\ (outcome = "ok" => exists)
        /\ futures' = r.futures
        /\ setups' = r.setups
        /\ started' = IF InRegistry(devices, dclass, device_id)
                       THEN [started EXCEPT ![dclass][device_id] =
                                              @ + Len(r.setups) - Len(setups)]
                       ELSE started
        /\ tasks' = [tasks EXCEPT ![t] = IF r.pc = "done" THEN Ended(r.outcome)
                                         ELSE Suspended(@, r.pc, r.uid)]
  /\ UNCHANGED <<devices, handles, listenerVars, dying, rf_pc, unregs,
                 initRaised, requestVars>>

\* asyncio.wait_for(self._futures[uid], 10) times out: wait_for cancels the
\* future, which stays in _futures, and the result is False.
TaskTimeout(t) ==
  /\ t \in DOMAIN tasks
  /\ tasks[t].pc = "wait"
  /\ futures' = [futures EXCEPT ![tasks[t].uid] = "cancelled"]
  /\ tasks' = [tasks EXCEPT ![t] = Ended("timeout")]
  /\ UNCHANGED <<devices, handles, setups, listenerVars, dying, rf_pc,
                 unregs, initRaised, started, requestVars>>

\* The woken task returning without a call of handle_message.
TaskWakeDiscard(t) ==
  /\ t \in DOMAIN tasks
  /\ tasks[t].pc = "wake"
  /\ tasks' = [tasks EXCEPT ![t] = Ended("delivered_new")]
  /\ UNCHANGED <<devices, futures, handles, setups, listenerVars, dying, rf_pc,
                 unregs, initRaised, started, requestVars>>

\* The slot resolved: _find_unknown_device returns the handle and
\* _ws_handle_message goes on to device.handle_message(message).
TaskWake(t) ==
  /\ t \in DOMAIN tasks
  /\ tasks[t].pc = "wake"
  /\ LET h == tasks[t].res
         r == handle_message(handles[h].state, tasks[t].msg)
     IN /\ handles' = [handles EXCEPT ![h].state = r.state]
        /\ tasks' = [tasks EXCEPT ![t] = Ended(IF r.raised
                                                THEN except_Exception("KeyError")
                                                ELSE "delivered_new")]
  /\ UNCHANGED <<devices, futures, setups, listenerVars, dying, rf_pc,
                 unregs, initRaised, started, requestVars>>

\* --------------------------------------------------------- refresh loop
SetMin(S) == CHOOSE x \in S : \A y \in S : x <= y

RECURSIVE RefreshItems(_, _, _, _, _)
\* for device_id, device in devices.items(): an id that is not a key of the
\* registry is stored as None and, when the classifier knows the device,
\* its setup is handed to the host under the polled kind.
RefreshItems(devs, sups, dclass, collection, ids) ==
  IF ids = {}
  THEN [devices |-> devs, setups |-> sups]
  ELSE LET device_id == SetMin(ids)
           device == collection[device_id]
           comp == component(Config, dclass, device)
       IN IF devs[dclass][device_id] # Absent
          THEN RefreshItems(devs, sups, dclass, collection, ids \ {device_id})
          ELSE RefreshItems(
                 [devs EXCEPT ![dclass][device_id] = None],
                 IF comp # NoComp
                 THEN Append(sups, [comp |-> comp, dclass |-> dclass,
                                    id |-> device_id, device |-> device])
                 ELSE sups,
                 dclass, collection, ids \ {device_id})

NextKind(dclass) == IF dclass = "sensors" THEN "lights" ELSE "sensors"

\* refresher_task: the GET of one kind returns. False makes devices.items()
\* raise AttributeError, which nothing catches. After 'lights' the loop
\* starts over at once: asyncio.sleep(5) is called without yield from.
RefreshGet(outcome) ==
  /\ rf_pc \in Kinds
  /\ outcome \in ReqOutcomes
  /\ LET got == req(outcome, Bridge[rf_pc])
     IN IF ~got.ok
        THEN /\ rf_pc' = "crashed"
             /\ UNCHANGED <<devices, setups, started>>
        ELSE LET r == RefreshItems(devices, setups, rf_pc, got.raw, DOMAIN got.raw)
                 handed == {r.setups[j].id : j \in (Len(setups) + 1)..Len(r.setups)}
             IN /\ devices' = r.devices
                /\ setups' = r.setups
                /\ started' = [started EXCEPT ![rf_pc] =
                                 [i \in Ids |-> IF i \in handed THEN @[i] + 1 ELSE @[i]]]
                /\ rf_pc' = NextKind(rf_pc)
  /\ UNCHANGED <<futures, handles, tasks, listenerVars, dying, unregs,
                 initRaised, requestVars>>

\* --------------------------------------------------- websocket listener
\* The listener has ended: "done" is the loop left normally, "cancelled"
\* and "crashed" are CancelledError and any other exception leaving the
\* coroutine.
Terminal == {"done", "cancelled", "crashed"}

\* finally: yield from socket.close(). Before the first successful connect
\* the local socket is unbound and the finally block raises
\* UnboundLocalError out of the coroutine.
Finally(after, cause) ==
  /\ ws_pc' = IF socket = "unbound" THEN "crashed" ELSE "close"
  /\ ws_after' = after
  /\ ws_cause' = cause
  /\ elapsed' = 0

\* while not self._dying, evaluated when the finally block has completed.
LoopAgain(after, isDying) ==
  after = "loop" /\ ~isDying

\* conf = yield from self.get('config') returns (False or the config, the
\* port defaults to 443): the listener calls websockets.connect(ws_url).
WsGetConfig(outcome) ==
  /\ ws_pc = "config"
  /\ ~ws_cancel
  /\ outcome \in ReqOutcomes
  /\ ws_pc' = IF dying THEN "done" ELSE "connect"
  /\ UNCHANGED <<ws_after, ws_cause, socket, elapsed, ws_cancel>>
  /\ UNCHANGED <<registryVars, tasks, dying, rf_pc, unregs, requestVars>>

\* The handshake succeeds: socket is bound and the listener waits for a frame.
WsConnected ==
  /\ ws_pc = "connect"
  /\ ~ws_cancel
  /\ socket' = "open"
  /\ ws_pc' = "recv"
  /\ UNCHANGED <<ws_after, ws_cause, elapsed, ws_cancel>>
  /\ UNCHANGED <<registryVars, tasks, dying, rf_pc, unregs, requestVars>>

\* The handshake fails: except Exception logs, calls asyncio.sleep(5)
\* without yield from (no delay is taken), and the finally block runs.
WsConnectFailed ==
  /\ ws_pc = "connect"
  /\ ~ws_cancel
  /\ Finally("loop", "handshake")
  /\ UNCHANGED <<socket, ws_cancel>>
  /\ UNCHANGED <<registryVars, tasks, dying, rf_pc, unregs, requestVars>>

\* The read loop awaiting the handler (yield from self._ws_handle_message)
\* instead of scheduling it: no frame is read while an event is routed.
WsRecvFrameAwait(raw) ==
  /\ ws_pc = "recv"
  /\ \A t \in DOMAIN tasks : tasks[t].pc = "done"
  /\ ~ws_cancel
  /\ Len(tasks) < MaxFrames
  /\ raw \in RawFrames \cup EntityFrames
  /\ IF raw.text = "empty"
     THEN UNCHANGED <<tasks, listenerVars>>
     ELSE LET j == json_loads(raw)
          IN IF j.raised
             THEN /\ Finally("loop", "decode")
                  /\ UNCHANGED <<tasks, socket, ws_cancel>>
             ELSE IF j.data = <<>>
             THEN UNCHANGED <<tasks, listenerVars>>
             ELSE /\ tasks' = Append(tasks, NewTask(j.data))
                  /\ UNCHANGED listenerVars
  /\ UNCHANGED <<registryVars, dying, rf_pc, unregs, requestVars>>

\* socket.recv() returns a frame: an empty frame and an empty payload are
\* logged and skipped, undecodable text raises out of json.loads into
\* except Exception, anything else is dispatched with ensure_future.
WsRecvFrame(raw) ==
  /\ ws_pc = "recv"
  /\ ~ws_cancel
  /\ Len(tasks) < MaxFrames
  /\ raw \in RawFrames \cup EntityFrames
  /\ IF raw.text = "empty"
     THEN UNCHANGED <<tasks, listenerVars>>
     ELSE LET j == json_loads(raw)
          IN IF j.raised
             THEN /\ Finally("loop", "decode")
                  /\ UNCHANGED <<tasks, socket, ws_cancel>>
             ELSE IF j.data = <<>>
             THEN UNCHANGED <<tasks, listenerVars>>
             ELSE /\ tasks' = Append(tasks, NewTask(j.data))
                  /\ UNCHANGED listenerVars
  /\ UNCHANGED <<registryVars, dying, rf_pc, unregs, requestVars>>

\* socket.recv() raises (the connection closed or broke).
WsRecvError ==
  /\ ws_pc = "recv"
  /\ ~ws_cancel
  /\ Finally("loop", "error")
  /\ UNCHANGED <<socket, ws_cancel>>
  /\ UNCHANGED <<registryVars, tasks, dying, rf_pc, unregs, requestVars>>

\* wait_for(socket.recv(), timeout=20) times out: a ping is sent and the
\* listener waits for the pong.
WsRecvTimeout ==
  /\ ws_pc = "recv"
  /\ ~ws_cancel
  /\ ws_pc' = "pong"
  /\ UNCHANGED <<ws_after, ws_cause, socket, elapsed, ws_cancel>>
  /\ UNCHANGED <<registryVars, tasks, dying, rf_pc, unregs, requestVars>>

\* The pong arrives within 10: continue.
WsPong ==
  /\ ws_pc = "pong"
  /\ ~ws_cancel
  /\ ws_pc' = "recv"
  /\ UNCHANGED <<ws_after, ws_cause, socket, elapsed, ws_cancel>>
  /\ UNCHANGED <<registryVars, tasks, dying, rf_pc, unregs, requestVars>>

\* wait_for(pong, timeout=10) times out: break leaves the inner loop, the
\* try block ends and the finally block runs.
WsPongTimeout ==
  /\ ws_pc = "pong"
  /\ ~ws_cancel
  /\ Finally("loop", "pong_timeout")
  /\ UNCHANGED <<socket, ws_cancel>>
  /\ UNCHANGED <<registryVars, tasks, dying, rf_pc, unregs, requestVars>>

\* socket.close() returns: the outer loop tests _dying and either ends or
\* calls websockets.connect again, with no delay in between.
WsClosed ==
  /\ ws_pc = "close"
  /\ ~ws_cancel
  /\ socket' = "closed"
  /\ ws_pc' = IF LoopAgain(ws_after, dying) THEN "connect" ELSE "done"
  /\ elapsed' = 0
  /\ UNCHANGED <<ws_after, ws_cause, ws_cancel>>
  /\ UNCHANGED <<registryVars, tasks, dying, rf_pc, unregs, requestVars>>

\* CancelledError is thrown into the listener at its suspension point.
\* Inside the try block except CancelledError breaks out of the loop, by
\* way of the finally block; in the config GET and in the finally block
\* itself it leaves the coroutine.
WsCancelled ==
  /\ ws_cancel
  /\ ws_pc \notin Terminal
  /\ ws_cancel' = FALSE
  /\ IF ws_pc \in {"config", "close"}
     THEN /\ ws_pc' = "cancelled"
          /\ elapsed' = 0
          /\ UNCHANGED <<ws_after, ws_cause>>
     ELSE Finally("exit", "cancel")
  /\ UNCHANGED socket
  /\ UNCHANGED <<registryVars, tasks, dying, rf_pc, unregs, requestVars>>

\* Time passes while the listener closes the socket it has left. The clock
\* advances in steps of the reconnect delay and is not followed beyond it.
Tick ==
  /\ ws_pc = "close"
  /\ elapsed < RECONNECT_DELAY
  /\ elapsed' = elapsed + RECONNECT_DELAY
  /\ UNCHANGED <<ws_pc, ws_after, ws_cause, socket, ws_cancel>>
  /\ UNCHANGED <<registryVars, tasks, dying, rf_pc, unregs, requestVars>>

\* kill() that only sets the flag.
KillNoCancel ==
  /\ ~dying
  /\ dying' = TRUE
  /\ UNCHANGED <<registryVars, tasks, listenerVars, rf_pc, unregs, requestVars>>

\* DeCONZApi.kill: self._dying = True; self._ws_task.cancel().
Kill ==
  /\ ~dying
  /\ dying' = TRUE
  /\ ws_cancel' = (ws_pc \notin Terminal)
  /\ UNCHANGED <<ws_pc, ws_after, ws_cause, socket, elapsed>>
  /\ UNCHANGED <<registryVars, tasks, rf_pc, unregs, requestVars>>

\* ------------------------------------------------------------ transport
\* get, put and post: _req with the session's verb.
Verbs == {"get", "put", "post"}

\* Nodes the client addresses: the config, the collections, one device and
\* one device's state endpoint.
Nodes == {"config", "sensors", "lights", "sensors/1", "lights/1/state"}

\* What the awaited call of the verb can do: answer with status 200 or
\* another status, run into the timeout of 10, raise ClientError, or raise
\* anything else.
ActionEvents == {"status200", "status_other", "timeout", "client_error", "error"}

\* What reading the body (response.text(), response.json()) can do.
BodyEvents == {"ok", "timeout", "client_error", "error"}

\* The except clauses of _req: TimeoutError and ClientError give False,
\* anything else leaves _req.
ReqExcept(ev) == IF ev \in {"timeout", "client_error"} THEN "False" ELSE "raised"

\* finally: if response: yield from response.release(); then _req returns
\* or raises what it was about to.
ReqFinally(resp, result) ==
  /\ response' = IF resp = "open" THEN "released" ELSE resp
  /\ rq_result' = result
  /\ rq_pc' = "idle"

\* A command enters _req: response = None, raw = False, and the verb is
\* awaited inside the timeout block.
ReqCall(verb, node) ==
  /\ rq_pc = "idle"
  /\ rq_call' = [verb |-> verb, node |-> node]
  /\ response' = "none"
  /\ rq_result' = "none"
  /\ rq_pc' = "action"
  /\ UNCHANGED <<registryVars, tasks, listenerVars, dying, rf_pc, unregs>>

\* response = yield from action(url, json=data) completes or raises.
ReqAction(ev) ==
  /\ rq_pc = "action"
  /\ IF ev = "status200"
     THEN /\ response' = "open"
          /\ rq_pc' = "json"
          /\ UNCHANGED rq_result
     ELSE IF ev = "status_other"
     THEN /\ response' = "open"
          /\ rq_pc' = "text"
          /\ UNCHANGED rq_result
     ELSE ReqFinally(response, ReqExcept(ev))
  /\ UNCHANGED <<rq_call, registryVars, tasks, listenerVars, dying, rf_pc, unregs>>

\* The non-200 path returning as soon as the body is read, past the release.
ReqTextEarlyReturn(ev) ==
  /\ rq_pc = "text"
  /\ rq_result' = IF ev = "ok" THEN "False" ELSE ReqExcept(ev)
  /\ rq_pc' = "idle"
  /\ UNCHANGED <<response, rq_call, registryVars, tasks, listenerVars, dying,
                 rf_pc, unregs>>

\* Status other than 200: response.text() is awaited for the log line, then
\* return False.
ReqText(ev) ==
  /\ rq_pc = "text"
  /\ ReqFinally(response, IF ev = "ok" THEN "False" ELSE ReqExcept(ev))
  /\ UNCHANGED <<rq_call, registryVars, tasks, listenerVars, dying, rf_pc, unregs>>

\* Status 200: raw = yield from response.json(); return raw.
ReqJson(ev) ==
  /\ rq_pc = "json"
  /\ ReqFinally(response, IF ev = "ok" THEN "raw" ELSE ReqExcept(ev))
  /\ UNCHANGED <<rq_call, registryVars, tasks, listenerVars, dying, rf_pc, unregs>>

\* ------------------------------------------------------- specification
Listener ==
  \/ \E o \in ReqOutcomes : WsGetConfig(o)
  \/ WsConnected
  \/ WsConnectFailed
  \/ \E raw \in RawFrames : WsRecvFrame(raw)
  \/ WsRecvError
  \/ WsRecvTimeout
  \/ WsPong
  \/ WsPongTimeout
  \/ WsClosed
  \/ WsCancelled

Next ==
  \/ Listener
  \/ Tick
  \/ Kill
  \/ \E t \in 1..MaxFrames : TaskStart(t)
  \/ \E t \in 1..MaxFrames, o \in ReqOutcomes : TaskFetch(t, o)
  \/ \E t \in 1..MaxFrames : TaskTimeout(t)
  \/ \E t \in 1..MaxFrames : TaskWake(t)
  \/ \E o \in ReqOutcomes : RefreshGet(o)
  \/ \E i \in 1..Len(setups) : SetupComplete(i)
  \/ \E k \in Kinds, i \in Ids : Unregister(k, i)

\* The client: listener, routing tasks, refresh loop and the host's
\* call-ins. The commands of the transport touch none of its state and are
\* specified on their own below.
Spec == Init /\ [][Next]_vars

\* The registry and its producers with a listener that connects and
\* receives: the listener's failure handling, kill and the clock write only
\* the listener's own variables and _dying, which no routing task, setup or
\* refresh step reads.
NextRegistry ==
  \/ \E o \in ReqOutcomes : WsGetConfig(o)
  \/ WsConnected
  \/ \E raw \in RawFrames : WsRecvFrame(raw)
  \/ \E t \in 1..MaxFrames : TaskStart(t)
  \/ \E t \in 1..MaxFrames, o \in ReqOutcomes : TaskFetch(t, o)
  \/ \E t \in 1..MaxFrames : TaskTimeout(t)
  \/ \E t \in 1..MaxFrames : TaskWake(t)
  \/ \E o \in ReqOutcomes : RefreshGet(o)
  \/ \E i \in 1..Len(setups) : SetupComplete(i)
  \/ \E k \in Kinds, i \in Ids : Unregister(k, i)

SpecRegistry == Init /\ [][NextRegistry]_vars

\* The producers and the handles under the events of EntityMessages: the
\* light is instantiated by the refresh loop (under lights/1) or by the
\* discovery its first event starts, and the events that follow reach
\* handle_message.
NextEntity ==
  \/ \E o \in ReqOutcomes : WsGetConfig(o)
  \/ WsConnected
  \/ \E raw \in EntityFrames : WsRecvFrame(raw)
  \/ \E t \in 1..MaxFrames : TaskStart(t)
  \/ \E t \in 1..MaxFrames, o \in ReqOutcomes : TaskFetch(t, o)
  \/ \E t \in 1..MaxFrames : TaskTimeout(t)
  \/ \E t \in 1..MaxFrames : TaskWake(t)
  \/ \E o \in ReqOutcomes : RefreshGet(o)
  \/ \E i \in 1..Len(setups) : SetupComplete(i)

SpecEntity == Init /\ [][NextEntity]_vars

\* The transport under the commands of the host (services, entities): one
\* call of _req after the other, each followed through its suspension
\* points.
NextTransport ==
  \/ \E verb \in Verbs, node \in Nodes : ReqCall(verb, node)
  \/ \E ev \in ActionEvents : ReqAction(ev)
  \/ \E ev \in BodyEvents : ReqText(ev)
  \/ \E ev \in BodyEvents : ReqJson(ev)

SpecTransport == Init /\ [][NextTransport]_vars

\* The listener on its own: the frames it dispatches become routing tasks
\* that are left unrun. The loop resumes the listener whenever what it
\* waits for completes, times out or is cancelled, and every wait of the
\* listener is bounded by a timeout: weak fairness of its steps.
NextListener ==
  \/ Listener
  \/ Tick
  \/ Kill

FairListener == Init /\ [][NextListener]_vars /\ WF_vars(Listener)

\* --------------------------------------------------------------- claims
Keys == Kinds \X Ids

LiveKeys == {ki \in Keys : IsLive(devices[ki[1]][ki[2]])}

HandleAt(ki) == handles[devices[ki[1]][ki[2]]]

\* C1: in every reachable state the registry holds at most one live handle
\* per uniqueid and at most one per (kind, id): no two live entries hold
\* handles of the same uniqueid, no handle is held under two keys, and a
\* live entry holds a handle made for that very key.
C1_OneLiveHandle ==
  /\ \A u \in Uids :
       Cardinality({ki \in LiveKeys : HandleAt(ki).uid = u}) <= 1
  /\ \A ki \in LiveKeys, kj \in LiveKeys :
       devices[ki[1]][ki[2]] = devices[kj[1]][kj[2]] => ki = kj
  /\ \A ki \in LiveKeys :
       HandleAt(ki).dclass = ki[1] /\ HandleAt(ki).id = ki[2]

\* C1 witness: the same physical device was instantiated twice (once by
\* each producer, around an unregister) and the registry holds one of the
\* two handles.
C1_Witness ==
  \E g \in DOMAIN handles, h \in DOMAIN handles :
    /\ g # h
    /\ handles[g].uid = handles[h].uid
    /\ \E ki \in LiveKeys : devices[ki[1]][ki[2]] = h
    /\ \E t \in DOMAIN tasks : tasks[t].outcome = "delivered_new"

\* C2: register_device for a key whose entry is live changes neither the
\* registry nor the pending-discovery table nor any waiting task, and a
\* live entry changes only by an unregister_device, which removes it.
C2_LiveHandleKept ==
  [][ /\ \A ki \in Keys :
           (IsLive(devices[ki[1]][ki[2]])
              /\ devices'[ki[1]][ki[2]] # devices[ki[1]][ki[2]])
           => (unregs' = unregs + 1 /\ devices'[ki[1]][ki[2]] = Absent)
      /\ (Len(handles') = Len(handles) + 1
            /\ IsLive(devices[handles'[Len(handles')].dclass]
                             [handles'[Len(handles')].id]))
         => (devices' = devices /\ futures' = futures /\ tasks' = tasks)
    ]_vars

\* C2 witness: an entity was built for a key that an older handle holds,
\* so its register_device met a live entry.
C2_Witness ==
  \E h \in DOMAIN handles :
    LET e == devices[handles[h].dclass][handles[h].id]
    IN IsLive(e) /\ e < h

\* The step builds an entity, whose __init__ calls register_device.
Registers == Len(handles') = Len(handles) + 1

\* C3: whenever register_device is called while a slot for the handle's
\* uniqueid is in the pending-discovery table, the call raises nothing, the
\* slot leaves the table, and every task waiting on it is woken with
\* exactly that handle.
C3_SlotResolved ==
  [][ (Registers /\ futures[handles'[Len(handles')].uid] # "absent")
      => /\ ~initRaised'
         /\ futures'[handles'[Len(handles')].uid] = "absent"
         /\ \A t \in DOMAIN tasks :
              (tasks[t].pc = "wait" /\ tasks[t].uid = handles'[Len(handles')].uid)
              => (tasks'[t].pc = "wake" /\ tasks'[t].res = Len(handles'))
    ]_vars

\* C4: when the wait on the discovery slot times out, the slot is no longer
\* in the pending-discovery table and the registry entry of the event's
\* (kind, id) is absent, so that the next event for it starts discovery
\* again.
C4_TimeoutClears ==
  [][ \A t \in DOMAIN tasks :
        (tasks[t].pc = "wait" /\ tasks'[t].outcome = "timeout")
        => /\ futures'[tasks[t].uid] = "absent"
           /\ devices'[tasks[t].msg.r][tasks[t].msg.id] = Absent
    ]_vars

\* C5: as long as kill has not been requested the listener has not ended.
C5_NeverGivesUp ==
  ~dying => ws_pc \notin Terminal

\* The step issues a connection attempt (websockets.connect is called).
Connects == ws_pc # "connect" /\ ws_pc' = "connect"

\* C6: once kill has set the dying flag and cancelled the listener, the
\* listener issues no further connection attempt and reaches its end.
C6_KillStopsListener ==
  /\ [][dying => ~Connects]_vars
  /\ (dying ~> ws_pc \in Terminal)

\* C6 witness: the listener observed the cancellation inside the connection
\* loop and ended through the finally block.
C6_Witness ==
  dying /\ ws_pc = "done" /\ ws_cause = "cancel" /\ socket = "closed"

\* C7: the refresh loop never ends: after every GET, failed or not, it is
\* at the GET of a later poll.
C7_RefreshKeepsRunning ==
  rf_pc \in Kinds

\* C8: after a pong timeout the listener issues its next connection attempt
\* only once the reconnect delay has elapsed.
C8_BackoffBeforeReconnect ==
  [][ (ws_pc = "close" /\ ws_cause = "pong_timeout" /\ ws_pc' = "connect")
      => elapsed >= RECONNECT_DELAY
    ]_vars

\* C9 as stated: routing an event for a device the classifier does not know
\* leaves no registry entry, no slot and no setup behind.
C9_NothingCreated ==
  [][ \A t \in DOMAIN tasks :
        (tasks[t].pc = "fetch" /\ tasks'[t].outcome = "unclassifiable")
        => /\ devices'[tasks[t].msg.r][tasks[t].msg.id] = Absent
           /\ futures' = futures
           /\ setups' = setups
    ]_vars

\* C9 amended: routing an event for a device the classifier does not know
\* creates no slot, no live entry and no setup; the one change is that the
\* entry of the event's (kind, id), absent before, is left pending (None):
\* the start of discovery writes only that entry, and the step that learns
\* the classifier's answer changes nothing.
C9_OnlyPendingMarker ==
  [][ \A t \in DOMAIN tasks :
        /\ (tasks[t].pc = "new" /\ tasks'[t].pc = "fetch")
           => /\ devices[tasks[t].msg.r][tasks[t].msg.id] = Absent
              /\ devices' = [devices EXCEPT ![tasks[t].msg.r][tasks[t].msg.id] = None]
              /\ UNCHANGED <<futures, setups, handles>>
        /\ (tasks[t].pc = "fetch" /\ tasks'[t].outcome = "unclassifiable")
           => /\ devices[tasks[t].msg.r][tasks[t].msg.id] = None
              /\ UNCHANGED <<devices, futures, setups, handles>>
    ]_vars

\* C9 witness: an event for sensors/2 was discarded as unclassifiable before
\* the refresh loop had polled the sensors.
C9_Witness ==
  /\ \E t \in DOMAIN tasks : tasks[t].outcome = "unclassifiable"
  /\ devices["sensors"][2] = None
  /\ devices["sensors"][1] = Absent
  /\ futures["uS2"] = "absent"

\* C10: a frame without 'r' or without 'id' ends its routing task at once
\* and changes nothing else: registry, pending-discovery table, handles and
\* setups are as before, no fetch is issued, no other task is touched.
C10_MalformedDiscarded ==
  [][ \A t \in DOMAIN tasks :
        (tasks[t].pc = "new" /\ tasks'[t] # tasks[t] /\ Malformed(tasks[t].msg))
        => /\ tasks'[t].pc = "done"
           /\ UNCHANGED <<devices, futures, handles, setups>>
           /\ \A u \in DOMAIN tasks : u # t => tasks'[u] = tasks[u]
    ]_vars

\* C10 witness: a frame without 'r' and a frame without 'id' were both
\* routed and discarded.
C10_Witness ==
  /\ \E t \in DOMAIN tasks : tasks[t].outcome = "no_dclass"
  /\ \E t \in DOMAIN tasks : tasks[t].outcome = "no_id"

\* The step applies handle_message of handle h to message m: the fast path
\* of a routing task that finds the entry live, or the wake-up of a task
\* whose discovery slot resolved with h.
Applies(t, h, m) ==
  /\ t \in DOMAIN tasks
  /\ tasks[t].msg = m
  /\ tasks'[t].pc = "done"
  /\ \/ /\ tasks[t].pc = "new"
        /\ ~Malformed(m)
        /\ devices[m.r][m.id] = h
        /\ IsLive(h)
     \/ /\ tasks[t].pc = "wake"
        /\ tasks[t].res = h

HasBattery(m) == "config" \in DOMAIN m /\ "battery" \in DOMAIN m.config

\* C11: an event of type 'changed' with a state sub-map and without a
\* battery field in a config sub-object (a config sub-object without battery
\* included) leaves the handle's state equal to the prior state overridden
\* field by field by the event's state sub-map.
C11_ChangedMerged ==
  [][ \A t \in DOMAIN tasks, h \in DOMAIN handles :
        LET m == tasks[t].msg
        IN (Applies(t, h, m) /\ ~HasBattery(m) /\ "e" \in DOMAIN m
              /\ m.e = "changed" /\ "state" \in DOMAIN m)
           => /\ DOMAIN handles'[h].state = DOMAIN handles[h].state \cup DOMAIN m.state
              /\ \A f \in DOMAIN m.state : handles'[h].state[f] = m.state[f]
              /\ \A f \in DOMAIN handles[h].state \ DOMAIN m.state :
                   handles'[h].state[f] = handles[h].state[f]
    ]_vars

\* C12: an event with a battery field in its config sub-object sets the
\* handle's battery level to that value and changes nothing else of the
\* handle's state nor any other handle, also when the event is of type
\* 'changed' and carries a state sub-map.
C12_BatteryOnly ==
  [][ \A t \in DOMAIN tasks, h \in DOMAIN handles :
        LET m == tasks[t].msg
        IN (Applies(t, h, m) /\ HasBattery(m))
           => /\ DOMAIN handles'[h].state = DOMAIN handles[h].state \cup {"battery_level"}
              /\ handles'[h].state["battery_level"] = m.config.battery
              /\ \A f \in DOMAIN handles[h].state \ {"battery_level"} :
                   handles'[h].state[f] = handles[h].state[f]
              /\ \A g \in DOMAIN handles : g # h => handles'[g] = handles[g]
    ]_vars

\* C12 witness: the battery report 70 that also says on = 1 was applied to
\* the light, whose on and bri are still those of the bridge's record.
C12_Witness ==
  \E h \in DOMAIN handles :
    /\ "battery_level" \in DOMAIN handles[h].state
    /\ handles[h].state["battery_level"] = 70
    /\ handles[h].state["on"] = 0
    /\ handles[h].state["bri"] = 50

\* C13: routing tasks take their first step in the order the listener
\* received their frames, and a task that finds the entry of its (kind, id)
\* live applies handle_message within that step: of two frames for the same
\* live device the earlier one is applied first.
C13_LiveOrder ==
  [][ \A u \in DOMAIN tasks :
        (tasks[u].pc = "new" /\ tasks'[u].pc # "new")
        => /\ \A t \in 1..(u - 1) : tasks[t].pc # "new"
           /\ (~Malformed(tasks[u].msg)
                 /\ IsLive(devices[tasks[u].msg.r][tasks[u].msg.id]))
              => (tasks'[u].pc = "done" /\ tasks'[u].outcome \in {"delivered", "error"})
    ]_vars

\* C13 witness: two frames for the live light were both delivered, and the
\* state is the one that {on: 0, bri: 120} followed by {on: 1} leaves.
C13_Witness ==
  /\ Len(tasks) >= 2
  /\ tasks[1].outcome = "delivered"
  /\ tasks[2].outcome = "delivered"
  /\ IsLive(devices["lights"][1])
  /\ handles[devices["lights"][1]].state = [on |-> 1, bri |-> 120]

\* C14: whenever a call of _req has ended, by return or by exception, the
\* response it obtained has been released.
C14_ResponseReleased ==
  rq_pc = "idle" => response # "open"

\* C14 witness: a call obtained a response, reading its body raised an
\* exception that _req does not catch, and the response was released before
\* the exception left _req.
C14_Witness ==
  rq_pc = "idle" /\ rq_result = "raised" /\ response = "released"

\* C15: no routing task ends by an exception leaving _ws_handle_message,
\* and no step of a routing task (nor the setup that wakes one) touches the
\* listener: it stays where it is, connected and receiving.
C15_FailureContained ==
  [][ /\ \A t \in DOMAIN tasks' : tasks'[t].outcome # "raised"
      /\ (Len(tasks') = Len(tasks) /\ tasks' # tasks) => UNCHANGED listenerVars
    ]_vars

\* C15 witness: an event raised inside handle_message, its task ended with
\* the error logged, and the listener, still connected, received the next
\* frame, which was delivered.
C15_Witness ==
  /\ Len(tasks) >= 2
  /\ tasks[1].outcome = "error"
  /\ tasks[2].outcome = "delivered"
  /\ ws_pc = "recv"
  /\ socket = "open"

\* C16 as stated: the task that discovery wakes with the new handle ends
\* without applying its event, so the handle's state is as before.
C16_TriggerNotApplied ==
  [][ \A t \in DOMAIN tasks :
        (tasks[t].pc = "wake" /\ tasks'[t].pc = "done")
        => handles'[tasks[t].res].state = handles[tasks[t].res].state
    ]_vars

\* C16 amended: the task that discovery wakes with the new handle applies
\* its event to that handle as handle_message does for any event: a battery
\* report sets the battery level, a 'changed' event with a state sub-map
\* and no config sub-object is merged field by field, any other event
\* leaves the state as it was.
C16_TriggerApplied ==
  [][ \A t \in DOMAIN tasks :
        (tasks[t].pc = "wake" /\ tasks'[t].pc = "done")
        => LET m == tasks[t].msg
               old == handles[tasks[t].res].state
               new == handles'[tasks[t].res].state
           IN IF HasBattery(m)
              THEN /\ DOMAIN new = DOMAIN old \cup {"battery_level"}
                   /\ new["battery_level"] = m.config.battery
                   /\ \A f \in DOMAIN old \ {"battery_level"} : new[f] = old[f]
              ELSE IF "config" \notin DOMAIN m /\ "e" \in DOMAIN m
                      /\ m.e = "changed" /\ "state" \in DOMAIN m
              THEN /\ DOMAIN new = DOMAIN old \cup DOMAIN m.state
                   /\ \A f \in DOMAIN m.state : new[f] = m.state[f]
                   /\ \A f \in DOMAIN old \ DOMAIN m.state : new[f] = old[f]
              ELSE new = old
    ]_vars

\* C16 witness: the one frame received so far started the discovery of the
\* light, and the handle built from the record {on: 0, bri: 50} now says
\* on = 1, as the frame did.
C16_Witness ==
  /\ Len(tasks) = 1
  /\ tasks[1].outcome = "delivered_new"
  /\ Len(handles) = 1
  /\ handles[1].uid = "uL1"
  /\ handles[1].state = [on |-> 1, bri |-> 50]

\* C17: when the discovery an event for (kind, id) started resolves its
\* slot, the handle the waiting task is woken with is the live entry of
\* that same (kind, id), for sensors and for lights.
C17_LiveUnderSameKey ==
  [][ \A t \in DOMAIN tasks :
        (tasks[t].pc = "wait" /\ tasks'[t].pc = "wake")
        => devices'[tasks[t].msg.r][tasks[t].msg.id] = tasks'[t].res
    ]_vars

\* The step is routing task t learning that its GET {kind}/{id} failed (the
\* device's slot is not a cancelled one, whose wait ends in an error too).
FetchFailed(t) ==
  /\ tasks[t].pc = "fetch"
  /\ tasks'[t].pc = "done"
  /\ tasks'[t].outcome = "error"
  /\ futures[Bridge[tasks[t].msg.r][tasks[t].msg.id].uniqueid] # "cancelled"

\* C18: a failed single-device fetch leaves the key of the event missing
\* from the registry, which is what makes the next event for it and the next
\* refresh cycle start discovery again (both start it only for a key that
\* is missing).
C18_FetchRetried ==
  [][ \A t \in DOMAIN tasks :
        FetchFailed(t) => ~InRegistry(devices', tasks[t].msg.r, tasks[t].msg.id)
    ]_vars

\* C19: no frame the listener receives while connected makes it leave the
\* connection because the frame could not be decoded.
C19_BadFrameSkipped ==
  [][ ~(ws_pc = "recv" /\ ws_pc' # "recv" /\ ws_cause' = "decode") ]_vars

\* C20: for every (kind, id), the setups handed to the host for the device
\* of that key between the key entering the registry (absent to pending)
\* and the next unregister_device of it are at most one.
C20_OneSetupPerKey ==
  \A k \in Kinds, i \in Ids : started[k][i] <= 1

\* C21: the listener's read of the next frame waits for no routing task,
\* and a routing task's first step waits for no task that is suspended:
\* whenever the listener is at its frame wait the next frame can be received,
\* and whenever all earlier tasks have taken their first step the next task
\* can take its own, whatever the earlier ones are suspended in.
C21_ReadLoopNotBlocked ==
  /\ (ws_pc = "recv" /\ ~ws_cancel /\ Len(tasks) < MaxFrames)
     => \A raw \in RawFrames : ENABLED WsRecvFrame(raw)
  /\ \A u \in DOMAIN tasks :
       (tasks[u].pc = "new" /\ \A t \in 1..(u - 1) : tasks[t].pc # "new")
       => ENABLED TaskStart(u)

\* C21 witness: the first frame's task is suspended in discovery (in its
\* GET or in the wait on its slot) and the second frame, received after it,
\* has been delivered to the live handle of its device.
C21_Witness ==
  /\ Len(tasks) >= 2
  /\ tasks[1].pc \in {"fetch", "wait"}
  /\ tasks[2].outcome = "delivered"

\* C22: once kill has been requested the refresh loop does not go past the
\* end of its cycle, where its delay is, into another poll of the
\* collections.
C22_RefreshStopsAfterKill ==
  [][ dying => ~(rf_pc = "lights" /\ rf_pc' = "sensors") ]_vars

====
